---- MODULE Spec2Model ----
(***************************************************************************)
(* Model of preprocessing-test/preprocess_server.py: the sketch            *)
(* preprocessing pipeline (run_pipeline) and the HTTP handler that serves  *)
(* it (Handler.do_GET, Handler.do_POST) behind a single-threaded           *)
(* HTTPServer.                                                             *)
(*                                                                         *)
(* The program keeps no state between requests; the one variable, log, is  *)
(* the history of what the server did for each request it served, in the   *)
(* order HTTPServer.serve_forever handed them to the handler.              *)
(*                                                                         *)
(* OpenCV, json and base64 are libraries.  A byte string handed to         *)
(* cv2.imdecode is modelled by what the library makes of it: either it is  *)
(* not a recognizable image (imdecode returns None), or it decodes to an   *)
(* h x w colour raster, and the fixed filter chain of lines 48-89          *)
(* (cvtColor, bilateralFilter, CLAHE, adaptiveThreshold, morphologyEx)     *)
(* turns that raster into the binary raster `closed`.  The other rasters   *)
(* the pipeline encodes are kept as terms naming the library call and its  *)
(* argument.                                                               *)
(***************************************************************************)
EXTENDS Integers, Sequences, FiniteSets, TLC

VARIABLES log

vars == <<log>>

\* Largest number of pixels (h * w) of a decoded image.
MaxPixels == 2
\* Largest number of requests the server is observed to serve.
MaxRequests == 2

None == [kind |-> "None"]

(***************************************************************************)
(* Rasters                                                                 *)
(***************************************************************************)
\* adaptiveThreshold(..., 255, ..., THRESH_BINARY, ...) yields 0 or 255 and
\* morphologyEx keeps the raster binary.
BinaryValues == {0, 255}

Shapes == {s \in (1..MaxPixels) \X (1..MaxPixels) : s[1] * s[2] <= MaxPixels}

PixelsOf(n) == [1..n -> BinaryValues]

\* What cv2.imdecode and the filter chain make of a decodable byte string.
DecodableFiles ==
  {[kind |-> "image", h |-> s[1], w |-> s[2], closed |-> px] :
      s \in Shapes, px \in UNION {PixelsOf(n) : n \in 1..MaxPixels}}

ImageFiles == {f \in DecodableFiles : Len(f.closed) = f.h * f.w}

\* A byte string that is no recognizable image (for instance a truncated header).
JunkFile == [kind |-> "junk"]

Files == ImageFiles \cup {JunkFile}

(***************************************************************************)
(* OpenCV calls.  A raster the library computes is a term [op, src]: the   *)
(* call and the raster (or file) it was applied to.  Only `closed`, whose  *)
(* pixels the program inspects, is kept pixel by pixel.                    *)
(***************************************************************************)
Lib(op, src) == [op |-> op, src |-> src]

RECURSIVE Origin(_)
\* The file a term was computed from.
Origin(t) == IF "src" \in DOMAIN t THEN Origin(t.src) ELSE t

\* cv2.imdecode(arr, cv2.IMREAD_COLOR): None when the bytes are no image.
imdecode(buf) == IF buf.kind = "image" THEN Lib("imdecode", buf) ELSE None

\* original.shape[:2]
shape(original) == <<original.src.h, original.src.w>>

cvtColor(src, code) == Lib("cvtColor " \o code, src)

bilateralFilter(src) == Lib("bilateralFilter d=9 sigmaColor=75 sigmaSpace=75", src)

clahe_apply(src) == Lib("CLAHE clipLimit=3.0 tileGridSize=8x8", src)

adaptiveThreshold(src, blockSize, C) ==
  Lib("adaptiveThreshold 255 GAUSSIAN_C BINARY blockSize=" \o ToString(blockSize)
        \o " C=" \o ToString(C), src)

\* cv2.morphologyEx(thresh, MORPH_CLOSE, 2x2 ellipse): the binary raster the
\* library derives from the decoded file.
morphologyEx(thresh) ==
  LET f == Origin(thresh)
  IN  [h |-> f.h, w |-> f.w, px |-> f.closed]

convertScaleAbs(src) == Lib("convertScaleAbs alpha=1.3 beta=40", src)

Canny(src) == Lib("Canny 30 100", src)

medianBlur(src) == Lib("medianBlur 3", src)

\* A plausible slip: the result of cv2.bitwise_not is dropped.
bitwise_not_dropped(src) == src

\* cv2.bitwise_not on a uint8 raster: v -> 255 - v; on a library term, a term.
bitwise_not(src) ==
  IF "px" \in DOMAIN src
    THEN [src EXCEPT !.px = [i \in DOMAIN src.px |-> 255 - src.px[i]]]
    ELSE Lib("bitwise_not", src)

\* np.sum(closed > 127)
CountAbove127(px) == Cardinality({i \in DOMAIN px : px[i] > 127})

\* A plausible slip: <= in place of <.
white_ratio_at_most_half(closed) == 2 * CountAbove127(closed.px) <= Len(closed.px)

\* white_ratio < 0.5, with white_ratio = np.sum(closed > 127) / closed.size.
white_ratio_below_half(closed) == 2 * CountAbove127(closed.px) < Len(closed.px)

\* cv2.imencode(fmt, img): (ok, buf).  JPEG encoding of a raster succeeds.
imencode(fmt, img) == [ok |-> TRUE, buf |-> [fmt |-> fmt, img |-> img]]

\* img_to_base64(img, fmt=".jpg")
img_to_base64(img) ==
  LET r    == imencode(".jpg", img)
      mime == "image/jpeg"
  IN  IF ~r.ok THEN <<>>
      ELSE <<"data:" \o mime \o ";base64,", [b64encode |-> r.buf]>>

\* A plausible slip: name and description passed in the wrong order.
StepSwapped(name, description, image) ==
  [name |-> description, description |-> name, image |-> image]

\* The strings below are the source's literals with its non-ASCII characters
\* written in ASCII: the circled digits as (1)..(6), the multiplication sign
\* as x, the dash as --, the arrow as -> and the Greek letters by name.
Step(name, description, image) ==
  [name |-> name, description |-> description, image |-> image]

\* A plausible slip: the note reports the measured white pixel count.
PolarityCorrectionWithCount(closed) ==
  LET n == ToString(CountAbove127(closed.px))
  IN  IF white_ratio_below_half(closed)
        THEN [final |-> bitwise_not(closed),
              invert_note |-> " (inverted -- " \o n \o " white pixels)"]
        ELSE [final |-> closed,
              invert_note |-> " (no inversion needed -- " \o n \o " white pixels)"]

\* Line 99-104: the polarity check and the note it puts in the description.
PolarityCorrection(closed) ==
  IF white_ratio_below_half(closed)
    THEN [final |-> bitwise_not(closed),
          invert_note |-> " (inverted -- detected dark background)"]
    ELSE [final |-> closed,
          invert_note |-> " (no inversion needed)"]

\* A plausible slip: the error result also carries an (empty) steps list.
DecodeErrorWithSteps == [error |-> "Failed to decode image", steps |-> <<>>]

\* Line 35: the result of a failed decode.
DecodeError == [error |-> "Failed to decode image"]

\* A plausible slip: the list of steps lives outside the function and is
\* never reset, so a run starts from the steps of the last successful run.
NewStepsShared ==
  LET done == {i \in DOMAIN log : "steps" \in DOMAIN log[i].outcome.result}
  IN  IF done = {} THEN <<>>
      ELSE log[CHOOSE i \in done : \A j \in done : j <= i].outcome.result.steps

\* Line 38: steps = [], a fresh list on every call.
NewSteps == <<>>

run_pipeline(img_bytes) ==
  LET original == imdecode(img_bytes)
  IN
  IF original = None THEN DecodeError
  ELSE
  LET h == shape(original)[1]
      w == shape(original)[2]
      gray      == cvtColor(original, "BGR2GRAY")
      bilateral == bilateralFilter(gray)
      enhanced  == clahe_apply(bilateral)
      thresh    == adaptiveThreshold(enhanced, 21, 10)
      closed    == morphologyEx(thresh)
      pol       == PolarityCorrection(closed)
      final     == medianBlur(pol.final)
      alt_light == adaptiveThreshold(enhanced, 31, 6)
      clahe_bright == convertScaleAbs(enhanced)
      edges     == Canny(bilateral)
      edges_inv == bitwise_not(edges)
      steps == NewSteps \o <<
        Step("Original",
             "Input image as received (" \o ToString(w) \o "x" \o ToString(h) \o ")",
             img_to_base64(original)),
        Step("(1) Grayscale",
             "Convert to single-channel grayscale. Removes color noise, reduces data for processing.",
             img_to_base64(cvtColor(gray, "GRAY2BGR"))),
        Step("(2) Bilateral Filter",
             "Denoise while preserving edges. d=9, sigmaColor=75, sigmaSpace=75. Smooths paper texture without blurring pencil lines.",
             img_to_base64(cvtColor(bilateral, "GRAY2BGR"))),
        Step("(3) CLAHE",
             "Contrast Limited Adaptive Histogram Equalization. clipLimit=3.0, grid=8x8. Makes faint pencil strokes visible without blowing out highlights.",
             img_to_base64(cvtColor(enhanced, "GRAY2BGR"))),
        Step("(4) Adaptive Threshold",
             "Gaussian adaptive threshold. blockSize=21, C=10. Separates lines from background even with uneven lighting. Paper -> white, lines -> black.",
             img_to_base64(cvtColor(thresh, "GRAY2BGR"))),
        Step("(5) Morphological Close",
             "Close operation with 2x2 ellipse kernel. Fills tiny gaps in pencil lines without thickening them too much.",
             img_to_base64(cvtColor(closed, "GRAY2BGR"))),
        Step("(6) Final Cleanup",
             "Median blur (3px) to remove speckles" \o pol.invert_note
               \o ". Clean dark lines on white background, ready for Gemini.",
             img_to_base64(cvtColor(final, "GRAY2BGR"))),
        Step("Alt A: Light Touch",
             "Less aggressive threshold (blockSize=31, C=6). Preserves more subtle shading and detail at the cost of some background noise.",
             img_to_base64(cvtColor(alt_light, "GRAY2BGR"))),
        Step("Alt B: CLAHE Only (No Threshold)",
             "Just contrast enhancement + brightness boost (alpha=1.3, beta=40). Preserves all tonal information -- pencil pressure, shading, soft edges. Least destructive.",
             img_to_base64(cvtColor(clahe_bright, "GRAY2BGR"))),
        Step("Alt C: Canny Edge Detection",
             "Canny edges (low=30, high=100). Extracts clean line art. Very clean but loses all shading and pencil weight information.",
             img_to_base64(cvtColor(edges_inv, "GRAY2BGR")))
      >>
  IN [steps |-> steps]

(***************************************************************************)
(* HTTP requests.  A body is either raw text or the JSON text of a value;  *)
(* a JSON object is a record; a string is either the base64 text of a      *)
(* file's bytes or some other text.                                        *)
(***************************************************************************)
RawBody(text) == [t |-> "raw", text |-> text]

JsonBody(v) == [t |-> "json", v |-> v]

EmptyBody == RawBody("")

B64(f) == [t |-> "b64", of |-> f]

\* A string base64.b64decode rejects (one data character: incorrect padding).
BadB64 == [t |-> "str", s |-> "A"]

Bodies ==
  {RawBody("{"), JsonBody([note |-> "no image here"]), JsonBody([image |-> BadB64])}
    \cup {JsonBody([image |-> B64(f)]) : f \in Files}

\* The Content-Length header: absent, the body's length, or not a number.
Payloads ==
  {[content_length |-> "exact", body |-> b] : b \in Bodies}
    \cup {[content_length |-> cl, body |-> JsonBody([image |-> B64(JunkFile)])] :
            cl \in {"absent", "garbage"}}

GetPaths == {"/", "/process"}

PostPaths == {"/process", "/badpath"}

GetRequests ==
  {[command |-> "GET", path |-> p, content_length |-> "absent", body |-> EmptyBody] :
      p \in GetPaths}

PostRequests ==
  {[command |-> "POST", path |-> p, content_length |-> pl.content_length,
    body |-> pl.body] : p \in PostPaths, pl \in Payloads}

(***************************************************************************)
(* Library calls of do_POST: the value, or the exception raised.           *)
(***************************************************************************)
Ok(v) == [raised |-> "", value |-> v]

Raise(e) == [raised |-> e, value |-> None]

\* int(self.headers.get("Content-Length", 0)): the number of bytes to read.
content_length_int(req) ==
  CASE req.content_length = "absent"  -> Ok("zero")
    [] req.content_length = "exact"   -> Ok("all")
    [] req.content_length = "garbage" -> Raise("ValueError")

\* self.rfile.read(length)
rfile_read(req, length) == IF length = "all" THEN req.body ELSE EmptyBody

\* json.loads(body)
json_loads(body) ==
  IF body.t = "json" THEN Ok(body.v) ELSE Raise("JSONDecodeError")

\* A plausible slip: data.get("image", ""), which decodes to no bytes at all.
getitem_image_default(data) ==
  IF "image" \in DOMAIN data THEN Ok(data.image) ELSE Ok(B64(JunkFile))

\* data["image"]
getitem_image(data) ==
  IF "image" \in DOMAIN data THEN Ok(data.image) ELSE Raise("KeyError")

\* base64.b64decode(s)
b64decode(s) == IF s.t = "b64" THEN Ok(s.of) ELSE Raise("binascii.Error")

\* json.dumps(result).encode()
json_dumps(result) == JsonBody(result)

(***************************************************************************)
(* What the handler did for one request: the response it wrote (status 0:  *)
(* no status line), the rfile.read and run_pipeline calls it made, the     *)
(* pipeline result, and the exception that ended it, if any.               *)
(***************************************************************************)
\* The static viewer page (lines 152-239), cut to its doctype and title.
HTML_PAGE == "<!DOCTYPE html><html lang=en>...<title>Sketch Preprocessing Pipeline Demo</title>...</html>"

\* headers holds the send_header calls of the handler; the Server and Date
\* headers that BaseHTTPRequestHandler.send_response adds itself are left out.
NoResponse == [status |-> 0, headers |-> <<>>, end_headers |-> FALSE, body |-> EmptyBody]

Outcome(response, reads, calls, result, fault) ==
  [response |-> response, reads |-> reads, pipeline_calls |-> calls,
   result |-> result, fault |-> fault]

Fault(reads, e) == Outcome(NoResponse, reads, 0, None, e)

\* Handler.do_GET: no test of self.path.
do_GET_outcome(req) ==
  Outcome([status |-> 200,
           headers |-> << <<"Content-Type", "text/html">> >>,
           end_headers |-> TRUE,
           body |-> RawBody(HTML_PAGE)],
          0, 0, None, "")

\* Lines 254-256: send_response(404); end_headers(); return
NotFound ==
  Outcome([status |-> 404, headers |-> <<>>, end_headers |-> TRUE,
           body |-> EmptyBody], 0, 0, None, "")

\* A plausible slip: a decode failure is answered with an error status.
PipelineResponseByStatus(result) ==
  [status |-> IF "error" \in DOMAIN result THEN 422 ELSE 200,
   headers |-> << <<"Content-Type", "application/json">> >>,
   end_headers |-> TRUE,
   body |-> json_dumps(result)]

\* Lines 270-273: the response that carries the pipeline result.
PipelineResponse(result) ==
  [status |-> 200,
   headers |-> << <<"Content-Type", "application/json">> >>,
   end_headers |-> TRUE,
   body |-> json_dumps(result)]

\* Lines 258-273 of do_POST: the /process route.
Process(req) ==
  LET length == content_length_int(req) IN
  IF length.raised # "" THEN Fault(0, length.raised) ELSE
  LET body == rfile_read(req, length.value)
      data == json_loads(body) IN
  IF data.raised # "" THEN Fault(1, data.raised) ELSE
  LET image == getitem_image(data.value) IN
  IF image.raised # "" THEN Fault(1, image.raised) ELSE
  LET img_bytes == b64decode(image.value) IN
  IF img_bytes.raised # "" THEN Fault(1, img_bytes.raised) ELSE
  LET result == run_pipeline(img_bytes.value) IN
  Outcome(PipelineResponse(result), 1, 1, result, "")

\* A plausible slip: no test of self.path.
do_POST_unrouted(req) == Process(req)

\* Handler.do_POST
do_POST_outcome(req) ==
  IF req.path # "/process" THEN NotFound ELSE Process(req)

(***************************************************************************)
(* The server: HTTPServer.serve_forever hands one request at a time to the *)
(* handler, which runs to its end (or to its exception) before the next.   *)
(***************************************************************************)
Init == log = <<>>

do_GET(req) ==
  /\ Len(log) < MaxRequests
  /\ log' = Append(log, [request |-> req, outcome |-> do_GET_outcome(req)])

do_POST(req) ==
  /\ Len(log) < MaxRequests
  /\ log' = Append(log, [request |-> req, outcome |-> do_POST_outcome(req)])

Next ==
  \/ \E req \in GetRequests : do_GET(req)
  \/ \E req \in PostRequests : do_POST(req)

Spec == Init /\ [][Next]_vars

(***************************************************************************)
(* What the properties read from the log.                                  *)
(***************************************************************************)
Served == {log[i] : i \in DOMAIN log}

\* run_pipeline was invoked for this request and returned.
Ran(e) == e.outcome.pipeline_calls = 1

\* run_pipeline returned the steps result.
Succeeded(e) == "steps" \in DOMAIN e.outcome.result

\* The bytes the request's "image" value decodes to (for an entry that Ran).
ImageBytesOf(e) == e.request.body.v.image.of

Names(steps) == [k \in DOMAIN steps |-> steps[k].name]

NameDescs(steps) == [k \in DOMAIN steps |-> <<steps[k].name, steps[k].description>>]

MainNames ==
  <<"(1) Grayscale", "(2) Bilateral Filter", "(3) CLAHE", "(4) Adaptive Threshold",
    "(5) Morphological Close", "(6) Final Cleanup">>

AltNames ==
  <<"Alt A: Light Touch", "Alt B: CLAHE Only (No Threshold)",
    "Alt C: Canny Edge Detection">>

FinalStep(steps) ==
  steps[CHOOSE k \in DOMAIN steps : steps[k].name = "(6) Final Cleanup"]

\* The raster handed to cv2.medianBlur, read back from the Final Cleanup image:
\* data URL -> encoded buffer -> cvtColor(GRAY2BGR) -> medianBlur -> its argument.
HandedToBlur(steps) == FinalStep(steps).image[2].b64encode.img.src.src

White(px) == {k \in DOMAIN px : px[k] > 127}

Inverted(px) == [k \in DOMAIN px |-> 255 - px[k]]

InvertedText == "Median blur (3px) to remove speckles (inverted -- detected dark background). Clean dark lines on white background, ready for Gemini."

NotInvertedText == "Median blur (3px) to remove speckles (no inversion needed). Clean dark lines on white background, ready for Gemini."

(***************************************************************************)
(* C1                                                                      *)
(***************************************************************************)
\* C1 (as stated): every steps result has exactly the 9 entries Grayscale ..
\* Final Cleanup, Alt A, Alt B, Alt C, in that order, and no other entry.
C1_NineSteps ==
  \A e \in Served : Succeeded(e) =>
    Names(e.outcome.result.steps) = MainNames \o AltNames

\* C1 (amended): every steps result has exactly 10 entries: Original first,
\* then the 6 main steps, then the 3 alternatives, in that order.
C1_TenSteps ==
  \A e \in Served : Succeeded(e) =>
    /\ Len(e.outcome.result.steps) = 10
    /\ Names(e.outcome.result.steps) = <<"Original">> \o MainNames \o AltNames

C1_Witness ==
  \E e \in Served : Succeeded(e) /\ e.outcome.result.steps[1].name = "Original"

(***************************************************************************)
(* C2                                                                      *)
(***************************************************************************)
\* C2: every result of run_pipeline has exactly one of the keys steps and
\* error; it is the error result, with no steps key and nothing else, exactly
\* when the input bytes do not decode.
C2_TaggedResult ==
  \A e \in Served : Ran(e) =>
    LET r == e.outcome.result IN
    /\ ("steps" \in DOMAIN r) # ("error" \in DOMAIN r)
    /\ ("error" \in DOMAIN r) <=> (ImageBytesOf(e).kind # "image")
    /\ ("error" \in DOMAIN r) => DOMAIN r = {"error"}
    /\ ("steps" \in DOMAIN r) => DOMAIN r = {"steps"}

C2_Witness ==
  \E e \in Served :
    Ran(e) /\ ImageBytesOf(e) = JunkFile /\ "error" \in DOMAIN e.outcome.result

(***************************************************************************)
(* C3                                                                      *)
(***************************************************************************)
\* C3 (as stated): GET / is answered 200 with the viewer page, and a GET of
\* any other path is answered 404.
C3_GetOtherPath404 ==
  \A e \in Served : e.request.command = "GET" =>
    /\ e.request.path = "/" =>
         e.outcome.response.status = 200
           /\ e.outcome.response.body = RawBody(HTML_PAGE)
    /\ e.request.path # "/" => e.outcome.response.status = 404

(***************************************************************************)
(* C4                                                                      *)
(***************************************************************************)
\* C4: a POST to a path other than /process is answered 404 with an empty
\* body, without reading the request body and without running the pipeline.
C4_PostNotFound ==
  \A e \in Served :
    (e.request.command = "POST" /\ e.request.path # "/process") =>
      /\ e.outcome.response.status = 404
      /\ e.outcome.response.end_headers
      /\ e.outcome.response.body = EmptyBody
      /\ e.outcome.reads = 0
      /\ e.outcome.pipeline_calls = 0
      /\ e.outcome.fault = ""

C4_Witness ==
  \E e \in Served :
    /\ e.request.command = "POST" /\ e.request.path = "/badpath"
    /\ e.request.content_length = "exact"
    /\ \E f \in ImageFiles : e.request.body = JsonBody([image |-> B64(f)])
    /\ e.outcome.response.status = 404

(***************************************************************************)
(* C5                                                                      *)
(***************************************************************************)
\* The body the handler reads is JSON with a base64 "image" value.
WellFormedPost(e) ==
  /\ e.request.command = "POST" /\ e.request.path = "/process"
  /\ e.request.content_length = "exact"
  /\ e.request.body.t = "json"
  /\ "image" \in DOMAIN e.request.body.v
  /\ e.request.body.v.image.t = "b64"

C6_Polarity ==
  \A e \in Served : Succeeded(e) =>
    LET px     == ImageBytesOf(e).closed
        steps  == e.outcome.result.steps
        handed == HandedToBlur(steps).px
        desc   == FinalStep(steps).description
    IN  IF 2 * Cardinality(White(px)) < Len(px)
          THEN handed = Inverted(px) /\ desc = InvertedText
          ELSE handed = px /\ desc = NotInvertedText

\* A raster that is exactly half white was served and left as it was, and an
\* all-black one was served and inverted.
C6_Witness ==
  \E e1, e2 \in Served :
    /\ Succeeded(e1) /\ Succeeded(e2)
    /\ LET px == ImageBytesOf(e1).closed
       IN  2 * Cardinality(White(px)) = Len(px)
             /\ FinalStep(e1.outcome.result.steps).description = NotInvertedText
    /\ LET px == ImageBytesOf(e2).closed
       IN  White(px) = {}
             /\ FinalStep(e2.outcome.result.steps).description = InvertedText

(***************************************************************************)
(* C7                                                                      *)
(***************************************************************************)
\* C7 (as stated): any two steps results have the same sequence of
\* (name, description) pairs.
C7_SameNameDescs ==
  \A e1, e2 \in Served : (Succeeded(e1) /\ Succeeded(e2)) =>
    NameDescs(e1.outcome.result.steps) = NameDescs(e2.outcome.result.steps)

\* What the two computed descriptions are computed from.
DescInputs(e) ==
  LET f == ImageBytesOf(e)
  IN  <<f.w, f.h, 2 * Cardinality(White(f.closed)) < Len(f.closed)>>

\* C7 (amended): any two steps results have the same names, and the same
\* descriptions except for Original (which states the width and height) and
\* Final Cleanup (which states whether the raster was inverted); with the same
\* width, height and inversion decision the (name, description) pairs agree.
C7_NameDescsUpToInput ==
  \A e1, e2 \in Served : (Succeeded(e1) /\ Succeeded(e2)) =>
    LET s1 == e1.outcome.result.steps
        s2 == e2.outcome.result.steps
    IN  /\ Names(s1) = Names(s2)
        /\ \A k \in DOMAIN s1 :
             s1[k].name \notin {"Original", "(6) Final Cleanup"} =>
               s1[k].description = s2[k].description
        /\ DescInputs(e1) = DescInputs(e2) => NameDescs(s1) = NameDescs(s2)

\* Two different files with the same width, height and inversion decision.
C7_Witness ==
  \E e1, e2 \in Served :
    /\ Succeeded(e1) /\ Succeeded(e2)
    /\ ImageBytesOf(e1) # ImageBytesOf(e2)
    /\ DescInputs(e1) = DescInputs(e2)

(***************************************************************************)
(* C8                                                                      *)
(***************************************************************************)
\* The body the handler reads is not JSON, or is JSON without an "image" key
\* (with no Content-Length the handler reads zero bytes, which is not JSON).
MalformedPost(e) ==
  /\ e.request.command = "POST" /\ e.request.path = "/process"
  /\ \/ e.request.content_length = "absent"
     \/ /\ e.request.content_length = "exact"
        /\ \/ e.request.body.t # "json"
           \/ "image" \notin DOMAIN e.request.body.v

\* C8: such a request faults before run_pipeline is invoked and before the
\* handler writes any status line, header or body.
C8_FaultBeforeResponse ==
  \A e \in Served : MalformedPost(e) =>
    /\ e.outcome.fault # ""
    /\ e.outcome.pipeline_calls = 0
    /\ e.outcome.result = None
    /\ e.outcome.response = NoResponse

C8_Witness ==
  \E e1, e2 \in Served :
    /\ MalformedPost(e1) /\ e1.request.content_length = "absent"
    /\ e1.outcome.fault = "JSONDecodeError"
    /\ MalformedPost(e2) /\ e2.request.body = JsonBody([note |-> "no image here"])
    /\ e2.outcome.fault = "KeyError"

C10_MajorityWhite ==
  \A e \in Served : Succeeded(e) =>
    LET px == HandedToBlur(e.outcome.result.steps).px
    IN  2 * Cardinality(White(px)) >= Len(px)

\* A mostly dark closed raster went through the polarity correction.
C10_Witness ==
  \E e \in Served :
    /\ Succeeded(e)
    /\ 2 * Cardinality(White(ImageBytesOf(e).closed)) < Len(ImageBytesOf(e).closed)
    /\ HandedToBlur(e.outcome.result.steps).px # ImageBytesOf(e).closed

====
